---- MODULE Spec2Model ----
(***************************************************************************)
(* Model of `scw instance server create`                                   *)
(* (internal/namespaces/instance/v1/command_server_create.go).             *)
(*                                                                         *)
(* One invocation of instanceServerCreateRun is a sequential process whose *)
(* position is pc.  Every remote call of the scaleway SDK is a step whose  *)
(* outcome (success or error, and the data returned) is chosen by the      *)
(* environment.  Strings are TLA+ strings; a volume descriptor is the      *)
(* sequence of its tokens so that strings.TrimSpace and strings.Split are  *)
(* computed, not assumed.  Sizes are counted in GB (TLC integers are 32    *)
(* bits wide, a byte count of 20e9 does not fit).  A Go nil pointer is the *)
(* empty sequence None, a non-nil pointer to v is Some(v).                 *)
(***************************************************************************)
EXTENDS Integers, Sequences, FiniteSets, TLC

VARIABLES
    args,            \* *instanceCreateServerRequest, the input of the run
    pc,              \* position in instanceServerCreateRun
    needIPCreation,  \* local variable needIPCreation
    serverReq,       \* *instance.CreateServerRequest being assembled
    volumes,         \* map[string]*instance.VolumeTemplate of buildVolumes
    idx,             \* loop variable i of buildVolumes
    calls,           \* remote calls issued so far, in order
    sentReq,         \* the request CreateServer was called with (None before)
    warnings,        \* logger.Warningf calls so far, in order
    err,             \* the err of line 291 (CreateServer's error, "" if none)
    result           \* what instanceServerCreateRun returned

vars == <<args, pc, needIPCreation, serverReq, volumes, idx, calls, sentReq,
          warnings, err, result>>

-----------------------------------------------------------------------------
(* Bounds of the model.                                                    *)

MaxAdditional == 1      \* at most this many additional-volumes arguments
MaxVolumes == 2         \* the same, in the runs of SpecVolumes
MaxDescLen == 3         \* at most this many tokens in a descriptor of SpecParse

-----------------------------------------------------------------------------
(* Go values.                                                              *)

None == <<>>
Some(v) == <<v>>
IsNil(p) == p = <<>>
Deref(p) == p[1]

(* Tokens of the strings fed to the run. *)
ImageUUID     == "11111111-1111-1111-1111-111111111111"
IPUUID        == "22222222-2222-2222-2222-222222222222"
VolumeUUID    == "33333333-3333-3333-3333-333333333333"
BootscriptUUID == "44444444-4444-4444-4444-444444444444"
CreatedIPID   == "55555555-5555-5555-5555-555555555555"
LookedUpIPID  == "66666666-6666-6666-6666-666666666666"
LabelImageID  == "77777777-7777-7777-7777-777777777777"
ServerID      == "88888888-8888-8888-8888-888888888888"
OwnerServerID == "99999999-9999-9999-9999-999999999999"

UUIDStrings == {ImageUUID, IPUUID, VolumeUUID, BootscriptUUID, CreatedIPID,
                LookedUpIPID, LabelImageID, ServerID, OwnerServerID}

(* validation.IsUUID of the SDK: the canonical 8-4-4-4-12 form. *)
IsUUID(s) == s \in UUIDStrings

(* net.ParseIP(s) != nil: dotted-decimal IPv4 or IPv6 text. *)
IPLiterals == {"51.15.0.1", "2001:db8::1"}
ParseIPOk(s) == s \in IPLiterals

(* Errors of the remote API. *)
RemoteErrors == {"api error A", "api error B"}

NoError == [msg |-> "", cause |-> ""]
Err(m, c) == [msg |-> m, cause |-> c]

(* A remote call as recorded: the operation, its arguments, whether it
   succeeded and what it returned (the error when it failed and the error
   matters to the run). *)
Call(op, arg, ok, ret) == [op |-> op, arg |-> arg, ok |-> ok, ret |-> ret]

-----------------------------------------------------------------------------
(* Inputs.                                                                 *)

ServerName == "srv"

ImageArgs == {ImageUUID, "ubuntu_bionic"}

IPArgs == {"", "new", IPUUID, "51.15.0.1", "dynamic", "none", " ", "NEW"}

TypeArgs == {"DEV1-S", "X1-UNKNOWN"}

BootscriptArgs == {"", BootscriptUUID, "my-bootscript"}

(* core.GetOrganizationIdFromContext(ctx) *)
DefaultOrganizationID == "org-default"

(* Volume descriptors, as token sequences: "l:20GB" is <<"l", ":", "20GB">>. *)
RootVolumeArgs ==
    { <<>>,
      <<"l", ":", "10GB">>, <<"local", ":", "20GB">>, <<"l", ":", "0">>,
      <<"b", ":", "20GB">>,
      <<VolumeUUID>>,
      <<"20GB">> }

AdditionalVolumeArgs ==
    { <<"l", ":", "10GB">>, <<" ", "block", ":", "20GB">>, <<VolumeUUID>>,
      <<"x", ":", "10GB">> }

RECURSIVE SeqsUpTo(_, _)
SeqsUpTo(S, n) ==
    IF n = 0 THEN { <<>> }
    ELSE LET shorter == SeqsUpTo(S, n - 1)
         IN  shorter \cup { Append(q, x) : q \in shorter, x \in S }

Args ==
    [ Image             : ImageArgs,
      Type              : TypeArgs,
      Name              : {ServerName},
      OrganizationID    : {""},
      RootVolume        : RootVolumeArgs,
      AdditionalVolumes : SeqsUpTo(AdditionalVolumeArgs, MaxAdditional),
      IP                : IPArgs,
      Start             : BOOLEAN,
      BootscriptID      : BootscriptArgs ]

-----------------------------------------------------------------------------
(* Volume templates and the descriptor parser.                             *)

VolumeTypeLSSD == "l_ssd"
VolumeTypeBSSD == "b_ssd"

(* instance.VolumeTemplate, zero value. *)
EmptyTemplate ==
    [ID |-> "", Name |-> "", Size |-> 0, VolumeType |-> "", Organization |-> ""]

(* strings.TrimSpace *)
RECURSIVE TrimLeft(_)
TrimLeft(d) == IF d # <<>> /\ Head(d) = " " THEN TrimLeft(Tail(d)) ELSE d

RECURSIVE TrimRight(_)
TrimRight(d) ==
    IF d # <<>> /\ d[Len(d)] = " " THEN TrimRight(SubSeq(d, 1, Len(d) - 1)) ELSE d

TrimSpace(d) == TrimRight(TrimLeft(d))

(* strings.Split(s, ":"): the parts of d between the ":" tokens, each part
   the concatenation of its tokens; cur is the part being read. *)
RECURSIVE SplitFrom(_, _)
SplitFrom(d, cur) ==
    IF d = <<>> THEN <<cur>>
    ELSE IF Head(d) = ":" THEN <<cur>> \o SplitFrom(Tail(d), "")
    ELSE SplitFrom(Tail(d), cur \o Head(d))

Split(d) == SplitFrom(d, "")

(* humanize.ParseBytes, in GB, on the size strings of the model. *)
ParsedSizes == [s \in {"0", "10GB", "20GB", "20G", "30GB"} |->
                  CASE s = "0" -> 0
                    [] s = "10GB" -> 10
                    [] s = "20GB" -> 20
                    [] s = "20G" -> 20
                    [] s = "30GB" -> 30]

ParseBytesOk(s) == s \in DOMAIN ParsedSizes
ParseBytes(s) == ParsedSizes[s]

(* Mutant: line 372 without strings.TrimSpace. *)
ParseVolume_Untrimmed(orgID, flagV) ==
    LET parts == Split(flagV)
        none  == [kind |-> "error", vt |-> EmptyTemplate, id |-> "", err |-> NoError]
    IN  IF Len(parts) = 2 THEN
            IF parts[1] \notin {"l", "local", "b", "block"}
            THEN [none EXCEPT !.err = Err("Invalid volume type", "")]
            ELSE IF ~ParseBytesOk(parts[2])
            THEN [none EXCEPT !.err = Err("Invalid size format", "")]
            ELSE [none EXCEPT
                    !.kind = "new",
                    !.vt = [EmptyTemplate EXCEPT
                              !.VolumeType = IF parts[1] \in {"l", "local"}
                                             THEN VolumeTypeLSSD
                                             ELSE VolumeTypeBSSD,
                              !.Size = ParseBytes(parts[2]),
                              !.Organization = orgID]]
        ELSE IF Len(parts) = 1 /\ IsUUID(parts[1])
        THEN [none EXCEPT !.kind = "uuid", !.id = parts[1]]
        ELSE [none EXCEPT !.err = Err("invalid volume format", "")]

(* buildVolumeTemplate up to its remote call: what the descriptor asks for.
   kind "new": vt is the template; kind "uuid": id is to be looked up;
   kind "error": err is returned. *)
ParseVolume(orgID, flagV) ==
    LET parts == Split(TrimSpace(flagV))
        none  == [kind |-> "error", vt |-> EmptyTemplate, id |-> "", err |-> NoError]
    IN  IF Len(parts) = 2 THEN
            IF parts[1] \notin {"l", "local", "b", "block"}
            THEN [none EXCEPT !.err = Err("Invalid volume type", "")]
            ELSE IF ~ParseBytesOk(parts[2])
            THEN [none EXCEPT !.err = Err("Invalid size format", "")]
            ELSE [none EXCEPT
                    !.kind = "new",
                    !.vt = [EmptyTemplate EXCEPT
                              !.VolumeType = IF parts[1] \in {"l", "local"}
                                             THEN VolumeTypeLSSD
                                             ELSE VolumeTypeBSSD,
                              !.Size = ParseBytes(parts[2]),
                              !.Organization = orgID]]
        ELSE IF Len(parts) = 1 /\ IsUUID(parts[1])
        THEN [none EXCEPT !.kind = "uuid", !.id = parts[1]]
        ELSE [none EXCEPT !.err = Err("invalid volume format", "")]

-----------------------------------------------------------------------------
(* The run: STEP 1, argument validation and request creation.              *)

(* The request as built at lines 134-141; nil pointers and the nil map are
   None. *)
InitialServerReq(a) ==
    [ Name              |-> a.Name,
      CommercialType    |-> a.Type,
      Image             |-> "",
      PublicIP          |-> None,
      DynamicIPRequired |-> None,
      Volumes           |-> None,
      Bootscript        |-> None ]

(* make(map[string]*instance.VolumeTemplate) *)
NoVolumes == [k \in {} |-> EmptyTemplate]

Running == [kind |-> "running", err |-> NoError, server |-> ""]

Init ==
    /\ args \in Args
    /\ pc = "image"
    /\ needIPCreation = FALSE
    /\ serverReq = InitialServerReq(args)
    /\ volumes = NoVolumes
    /\ idx = 0
    /\ calls = << >>
    /\ sentReq = None
    /\ warnings = << >>
    /\ err = ""
    /\ result = Running

(* return nil, err *)
ReturnError(e) ==
    /\ pc' = "done"
    /\ result' = [kind |-> "error", err |-> e, server |-> ""]

(* An unrecovered run-time panic ends the run. *)
Panic ==
    /\ pc' = "done"
    /\ result' = [kind |-> "panic", err |-> NoError, server |-> ""]

(* Lines 154-168. *)
(* Mutant: line 165 is missing, the label stays in the request. *)
ResolveImage_LabelKept ==
    /\ pc = "image"
    /\ IF ~IsUUID(args.Image)
       THEN \E ok \in BOOLEAN :
              /\ calls' = Append(calls,
                    Call("GetLocalImageIDByLabel",
                         <<args.Image, serverReq.CommercialType>>, ok,
                         IF ok THEN <<LabelImageID>> ELSE << >>))
              /\ IF ~ok
                 THEN /\ ReturnError(Err("Bad image label", ""))
                      /\ UNCHANGED serverReq
                 ELSE /\ pc' = "ip"
                      /\ UNCHANGED <<serverReq, result>>
       ELSE /\ serverReq' = [serverReq EXCEPT !.Image = args.Image]
            /\ pc' = "ip"
            /\ UNCHANGED <<calls, result>>
    /\ UNCHANGED <<args, needIPCreation, volumes, idx, sentReq, warnings, err>>

(* Mutant: the return of line 163 is missing, the run goes on after a
   failed label lookup. *)
ResolveImage_FailureIgnored ==
    /\ pc = "image"
    /\ IF ~IsUUID(args.Image)
       THEN \E ok \in BOOLEAN :
              /\ calls' = Append(calls,
                    Call("GetLocalImageIDByLabel",
                         <<args.Image, serverReq.CommercialType>>, ok,
                         IF ok THEN <<LabelImageID>> ELSE << >>))
              /\ serverReq' = [serverReq EXCEPT
                                 !.Image = IF ok THEN LabelImageID ELSE ""]
              /\ pc' = "ip"
              /\ UNCHANGED result
       ELSE /\ serverReq' = [serverReq EXCEPT !.Image = args.Image]
            /\ pc' = "ip"
            /\ UNCHANGED <<calls, result>>
    /\ UNCHANGED <<args, needIPCreation, volumes, idx, sentReq, warnings, err>>

ResolveImage ==
    /\ pc = "image"
    /\ IF ~IsUUID(args.Image)
       THEN \E ok \in BOOLEAN :
              /\ calls' = Append(calls,
                    Call("GetLocalImageIDByLabel",
                         <<args.Image, serverReq.CommercialType>>, ok,
                         IF ok THEN <<LabelImageID>> ELSE << >>))
              /\ IF ~ok
                 THEN /\ ReturnError(Err("Bad image label", ""))
                      /\ UNCHANGED serverReq
                 ELSE /\ serverReq' = [serverReq EXCEPT !.Image = LabelImageID]
                      /\ pc' = "ip"
                      /\ UNCHANGED result
       ELSE /\ serverReq' = [serverReq EXCEPT !.Image = args.Image]
            /\ pc' = "ip"
            /\ UNCHANGED <<calls, result>>
    /\ UNCHANGED <<args, needIPCreation, volumes, idx, sentReq, warnings, err>>

(* Mutant: the "none" case of line 198 is missing. *)
IPDirective_NoneMissing(ip) ==
    CASE ip = "" \/ ip = "new" -> "CreateNew"
      [] IsUUID(ip)            -> "AttachUUID"
      [] ParseIPOk(ip)         -> "AttachAddress"
      [] ip = "dynamic"        -> "Dynamic"
      [] OTHER                 -> "Invalid"

(* Mutant: "dynamic" is handled like "new". *)
IPDirective_DynamicAsNew(ip) ==
    CASE ip = "" \/ ip = "new" \/ ip = "dynamic" -> "CreateNew"
      [] IsUUID(ip)            -> "AttachUUID"
      [] ParseIPOk(ip)         -> "AttachAddress"
      [] ip = "none"           -> "None"
      [] OTHER                 -> "Invalid"

(* The switch of lines 180-201: which case the ip argument selects. *)
IPDirective(ip) ==
    CASE ip = "" \/ ip = "new" -> "CreateNew"
      [] IsUUID(ip)            -> "AttachUUID"
      [] ParseIPOk(ip)         -> "AttachAddress"
      [] ip = "dynamic"        -> "Dynamic"
      [] ip = "none"           -> "None"
      [] OTHER                 -> "Invalid"

(* Mutant: && for the || of line 208. *)
HasVolumeArgs_Both(a) == Len(a.AdditionalVolumes) > 0 /\ a.RootVolume # <<>>

(* Line 208. *)
HasVolumeArgs(a) == Len(a.AdditionalVolumes) > 0 \/ a.RootVolume # <<>>

(* Lines 180-201, then the test of line 208. *)
ResolveIP ==
    /\ pc = "ip"
    /\ LET d == IPDirective(args.IP)
           goOn == /\ pc' = IF HasVolumeArgs(args) THEN "root" ELSE "bootscript"
                   /\ UNCHANGED result
       IN  CASE d = "CreateNew" ->
                  /\ needIPCreation' = TRUE
                  /\ goOn
                  /\ UNCHANGED <<serverReq, calls>>
             [] d = "AttachUUID" ->
                  /\ serverReq' = [serverReq EXCEPT !.PublicIP = Some(args.IP)]
                  /\ goOn
                  /\ UNCHANGED <<needIPCreation, calls>>
             [] d = "AttachAddress" ->
                  \E ok \in BOOLEAN :
                    /\ calls' = Append(calls, Call("GetIP", <<args.IP>>, ok,
                                             IF ok THEN <<LookedUpIPID>> ELSE << >>))
                    /\ UNCHANGED needIPCreation
                    /\ IF ~ok
                       THEN /\ ReturnError(Err("does not belongs to you", ""))
                            /\ UNCHANGED serverReq
                       ELSE /\ serverReq' =
                                 [serverReq EXCEPT !.PublicIP = Some(LookedUpIPID)]
                            /\ goOn
             [] d = "Dynamic" ->
                  /\ serverReq' = [serverReq EXCEPT !.DynamicIPRequired = Some(TRUE)]
                  /\ goOn
                  /\ UNCHANGED <<needIPCreation, calls>>
             [] d = "None" ->
                  /\ goOn
                  /\ UNCHANGED <<needIPCreation, serverReq, calls>>
             [] OTHER ->
                  /\ ReturnError(Err("Invalid IP", ""))
                  /\ UNCHANGED <<needIPCreation, serverReq, calls>>
    /\ UNCHANGED <<args, volumes, idx, sentReq, warnings, err>>

-----------------------------------------------------------------------------
(* Volumes: buildVolumes and buildVolumeTemplate.                          *)

VolumeSizes == {10, 20}

(* What GetVolume can answer: an error, or the volume with its class, its
   size and the server it is attached to (nil if none). *)
GetVolumeResponses ==
    { [ok |-> FALSE, VolumeType |-> "", Size |-> 0, Server |-> None] }
    \cup [ ok : {TRUE}, VolumeType : {VolumeTypeLSSD, VolumeTypeBSSD},
           Size : VolumeSizes, Server : {None, Some(OwnerServerID)} ]

Failed(e) == [ok |-> FALSE, vt |-> EmptyTemplate, err |-> e]
Built(vt) == [ok |-> TRUE, vt |-> vt, err |-> NoError]

(* Mutant: the attachment test of line 424 is missing. *)
BuildVolumeTemplateFromUUID_AttachedAccepted(volumeUUID, res) ==
    IF ~res.ok THEN Failed(Err("Volume does not exist", ""))
    ELSE Built([EmptyTemplate EXCEPT
                  !.ID = volumeUUID,
                  !.VolumeType = res.VolumeType,
                  !.Size = res.Size])

(* buildVolumeTemplateFromUUID, given GetVolume's answer res. *)
BuildVolumeTemplateFromUUID(volumeUUID, res) ==
    IF ~res.ok THEN Failed(Err("Volume does not exist", ""))
    ELSE IF ~IsNil(res.Server) THEN Failed(Err("Volume is already attached", ""))
    ELSE Built([EmptyTemplate EXCEPT
                  !.ID = volumeUUID,
                  !.VolumeType = res.VolumeType,
                  !.Size = res.Size])

(* buildVolumeTemplate: every outcome it can have, with the remote calls it
   made to get there. *)
BuildVolumeTemplate(orgID, flagV) ==
    LET p == ParseVolume(orgID, flagV)
    IN  CASE p.kind = "new"   -> { [made |-> << >>, out |-> Built(p.vt)] }
          [] p.kind = "error" -> { [made |-> << >>, out |-> Failed(p.err)] }
          [] p.kind = "uuid"  ->
               { [made |-> << Call("GetVolume", <<p.id>>, res.ok,
                                   IF res.ok
                                   THEN <<res.VolumeType, res.Size, res.Server>>
                                   ELSE << >>) >>,
                  out  |-> BuildVolumeTemplateFromUUID(p.id, res)]
                 : res \in GetVolumeResponses }

(* Lines 210-213. *)
OrganizationOf(a) ==
    IF a.OrganizationID = "" THEN DefaultOrganizationID ELSE a.OrganizationID

(* strconv.Itoa *)
Itoa(n) == ToString(n)

(* buildVolumes, lines 335-342: the root volume. *)
BuildRootVolume ==
    /\ pc = "root"
    /\ LET goOn == pc' = IF Len(args.AdditionalVolumes) > 0
                         THEN "additional" ELSE "validateRoot"
       IN  IF args.RootVolume # <<>>
           THEN \E o \in BuildVolumeTemplate(OrganizationOf(args), args.RootVolume) :
                  /\ calls' = calls \o o.made
                  /\ IF ~o.out.ok
                     THEN /\ ReturnError(o.out.err)
                          /\ UNCHANGED volumes
                     ELSE /\ volumes' =
                               ("0" :> [o.out.vt EXCEPT !.Organization = ""])
                          /\ goOn
                          /\ UNCHANGED result
           ELSE /\ goOn
                /\ UNCHANGED <<volumes, calls, result>>
    /\ idx' = 0
    /\ UNCHANGED <<args, needIPCreation, serverReq, sentReq, warnings, err>>

(* buildVolumes, lines 349-357: the template stored for additional volume i
   (0-based) built as vt, and its key. *)
(* Mutant: the index of line 349 is i, not i + 1. *)
AdditionalKey_ZeroBased(i) == Itoa(i)

AdditionalKey(i) == Itoa(i + 1)

(* Mutant: lines 353-355 are missing. *)
AdditionalTemplate_Unstripped(serverName, i, vt) ==
    [vt EXCEPT !.Name = serverName \o "-" \o AdditionalKey(i)]

AdditionalTemplate(serverName, i, vt) ==
    LET named == [vt EXCEPT !.Name = serverName \o "-" \o AdditionalKey(i)]
    IN  IF named.ID # ""
        THEN [EmptyTemplate EXCEPT !.ID = named.ID, !.Name = named.Name]
        ELSE named

(* buildVolumes, lines 344-360: one turn of the loop. *)
BuildAdditionalVolume ==
    /\ pc = "additional"
    /\ idx < Len(args.AdditionalVolumes)
    /\ \E o \in BuildVolumeTemplate(OrganizationOf(args),
                                    args.AdditionalVolumes[idx + 1]) :
         /\ calls' = calls \o o.made
         /\ IF ~o.out.ok
            THEN /\ ReturnError(o.out.err)
                 /\ UNCHANGED <<volumes, idx>>
            ELSE /\ volumes' = (AdditionalKey(idx) :>
                                  AdditionalTemplate(serverReq.Name, idx, o.out.vt))
                               @@ volumes
                 /\ idx' = idx + 1
                 /\ pc' = IF idx + 1 < Len(args.AdditionalVolumes)
                          THEN "additional" ELSE "validateRoot"
                 /\ UNCHANGED result
    /\ UNCHANGED <<args, needIPCreation, serverReq, sentReq, warnings, err>>

-----------------------------------------------------------------------------
(* Validation of the volume set.                                           *)

(* volumes["0"]: nil when the key is absent. *)
Lookup(m, k) == IF k \in DOMAIN m THEN Some(m[k]) ELSE None

ImageRootSizes == {0, 10, 20}

(* What GetImage can answer; on an error the SDK returns a nil response. *)
GetImageResponses ==
    { [ok |-> FALSE, RootVolumeSize |-> 0] }
    \cup [ ok : {TRUE}, RootVolumeSize : ImageRootSizes ]

(* Mutant: the test of line 491 made before the test of line 487. *)
RootVolumePrecheck_ExistingFirst(rootVolume) ==
    IF IsNil(rootVolume) THEN "pass"
    ELSE IF Deref(rootVolume).ID # ""
    THEN "You cannot use an existing volume as a root volume"
    ELSE IF Deref(rootVolume).VolumeType # VolumeTypeLSSD
    THEN "First volume must be local"
    ELSE "lookup"

(* validateRootVolume, lines 483-494: the checks made before the image is
   looked up.  "pass": nothing to check; "lookup": go on to GetImage. *)
RootVolumePrecheck(rootVolume) ==
    IF IsNil(rootVolume) THEN "pass"
    ELSE IF Deref(rootVolume).VolumeType # VolumeTypeLSSD
    THEN "First volume must be local"
    ELSE IF Deref(rootVolume).ID # ""
    THEN "You cannot use an existing volume as a root volume"
    ELSE "lookup"

(* Mutant: <= for the < of line 505. *)
RootVolumeTooSmall_OrEqual(size, imageRootSize) == size <= imageRootSize

(* Line 505. *)
RootVolumeTooSmall(size, imageRootSize) == size < imageRootSize

(* validateRootVolume, called at line 222. *)
ValidateRootVolume ==
    /\ pc = "validateRoot"
    /\ LET rootVolume == Lookup(volumes, "0")
           pre == RootVolumePrecheck(rootVolume)
       IN  CASE pre = "pass" ->
                  /\ pc' = "validateLocal"
                  /\ UNCHANGED <<calls, warnings, result>>
             [] pre = "lookup" ->
                  \E res \in GetImageResponses :
                    /\ calls' = Append(calls,
                         Call("GetImage", <<serverReq.Image>>, res.ok,
                              IF res.ok THEN <<res.RootVolumeSize>> ELSE << >>))
                    /\ IF ~res.ok
                       THEN \* lines 500-503 log and fall through; line 505 then
                            \* reads res.Image of the nil response
                            /\ warnings' = warnings \o
                                 << "cannot get image",
                                    "skip root volume size validation" >>
                            /\ Panic
                       ELSE /\ UNCHANGED warnings
                            /\ IF RootVolumeTooSmall(Deref(rootVolume).Size,
                                                     res.RootVolumeSize)
                               THEN ReturnError(
                                      Err("First volume size must be at least", ""))
                               ELSE /\ pc' = "validateLocal"
                                    /\ UNCHANGED result
             [] OTHER ->
                  /\ ReturnError(Err(pre, ""))
                  /\ UNCHANGED <<calls, warnings>>
    /\ UNCHANGED <<args, needIPCreation, serverReq, volumes, idx, sentReq, err>>

(* Lines 438-443: total size of the local volumes of the map. *)
RECURSIVE SumLocal(_, _)
SumLocal(m, keys) ==
    IF keys = {} THEN 0
    ELSE LET k == CHOOSE x \in keys : TRUE
         IN  (IF m[k].VolumeType = VolumeTypeLSSD THEN m[k].Size ELSE 0)
             + SumLocal(m, keys \ {k})

LocalVolumeTotalSize(m) == SumLocal(m, DOMAIN m)

(* VolumesConstraint of the server types the API can report. *)
VolumeConstraints ==
    { [MinSize |-> 20, MaxSize |-> 20], [MinSize |-> 10, MaxSize |-> 20] }

KnownTypes == {"DEV1-S"}

(* What ListServersTypes can answer: an error, or the map of the known
   server types to their constraints. *)
ListServersTypesResponses ==
    { [ok |-> FALSE, Servers |-> [t \in {} |-> 0]] }
    \cup { [ok |-> TRUE, Servers |-> [t \in KnownTypes |-> c]]
           : c \in VolumeConstraints }

(* Mutant: an unrecognized server type is an error instead of a warning. *)
CheckLocalVolumeSizes_UnknownTypeFails(m, servers, commercialType) ==
    IF commercialType \in DOMAIN servers
    THEN LET c     == servers[commercialType]
             total == LocalVolumeTotalSize(m)
                      + (IF IsNil(Lookup(m, "0")) THEN c.MinSize ELSE 0)
         IN  IF total < c.MinSize \/ total > c.MaxSize
             THEN IF c.MinSize = c.MaxSize
                  THEN Err("total local volume size must be equal to", "")
                  ELSE Err("total local volume size must be between", "")
             ELSE NoError
    ELSE Err("total local volume size must be between", "")

(* Mutant: the default root volume of line 462 is not counted. *)
CheckLocalVolumeSizes_NoDefaultRoot(m, servers, commercialType) ==
    IF commercialType \in DOMAIN servers
    THEN LET c     == servers[commercialType]
             total == LocalVolumeTotalSize(m)
         IN  IF total < c.MinSize \/ total > c.MaxSize
             THEN IF c.MinSize = c.MaxSize
                  THEN Err("total local volume size must be equal to", "")
                  ELSE Err("total local volume size must be between", "")
             ELSE NoError
    ELSE NoError

(* validateLocalVolumeSizes, lines 457-477, given the map of server types:
   the error returned, NoError for nil. *)
CheckLocalVolumeSizes(m, servers, commercialType) ==
    IF commercialType \in DOMAIN servers
    THEN LET c     == servers[commercialType]
             total == LocalVolumeTotalSize(m)
                      + (IF IsNil(Lookup(m, "0")) THEN c.MinSize ELSE 0)
         IN  IF total < c.MinSize \/ total > c.MaxSize
             THEN IF c.MinSize = c.MaxSize
                  THEN Err("total local volume size must be equal to", "")
                  ELSE Err("total local volume size must be between", "")
             ELSE NoError
    ELSE NoError

(* validateLocalVolumeSizes, called at line 227. *)
ValidateLocalVolumeSizes ==
    /\ pc = "validateLocal"
    /\ \E res \in ListServersTypesResponses :
         /\ calls' = Append(calls, Call("ListServersTypes", << >>, res.ok,
                                  IF res.ok THEN <<res.Servers>> ELSE << >>))
         /\ IF ~res.ok
            THEN /\ warnings' = warnings \o
                      << "cannot get server types",
                         "skip local volume size validation" >>
                 /\ pc' = "sanitize"
                 /\ UNCHANGED result
            ELSE LET e == CheckLocalVolumeSizes(volumes, res.Servers,
                                                serverReq.CommercialType)
                 IN  IF e # NoError
                     THEN /\ ReturnError(e)
                          /\ UNCHANGED warnings
                     ELSE /\ warnings' =
                               IF serverReq.CommercialType \in DOMAIN res.Servers
                               THEN warnings
                               ELSE warnings \o
                                      << "unrecognized server type",
                                         "skip local volume size validation" >>
                          /\ pc' = "sanitize"
                          /\ UNCHANGED result
    /\ UNCHANGED <<args, needIPCreation, serverReq, volumes, idx, sentReq, err>>

(* Mutant: line 523 does not test the size. *)
SanitizeTemplate_AnySize(serverName, index, v) ==
    LET named == [v EXCEPT !.Name = serverName \o "-" \o index]
    IN  CASE named.ID # "" ->
               [EmptyTemplate EXCEPT !.ID = named.ID, !.Name = named.Name]
          [] index = "0" ->
               [EmptyTemplate EXCEPT !.Size = named.Size]
          [] OTHER -> named

(* sanitizeVolumeMap, lines 516-527: what is stored for key index. *)
SanitizeTemplate(serverName, index, v) ==
    LET named == [v EXCEPT !.Name = serverName \o "-" \o index]
    IN  CASE named.ID # "" ->
               [EmptyTemplate EXCEPT !.ID = named.ID, !.Name = named.Name]
          [] index = "0" /\ named.Size # 0 ->
               [EmptyTemplate EXCEPT !.Size = named.Size]
          [] OTHER -> named

SanitizeVolumeMap(serverName, m) ==
    [k \in DOMAIN m |-> SanitizeTemplate(serverName, k, m[k])]

(* Line 232; line 517 also renames the templates of the map it is given. *)
SanitizeVolumes ==
    /\ pc = "sanitize"
    /\ serverReq' = [serverReq EXCEPT
                       !.Volumes = Some(SanitizeVolumeMap(serverReq.Name, volumes))]
    /\ volumes' = [k \in DOMAIN volumes |->
                     [volumes[k] EXCEPT !.Name = serverReq.Name \o "-" \o k]]
    /\ pc' = "bootscript"
    /\ UNCHANGED <<args, needIPCreation, idx, calls, sentReq, warnings, err, result>>

-----------------------------------------------------------------------------
(* Bootscript, lines 238-251, then the test of line 274.                   *)

(* Mutant: line 274 does not test needIPCreation. *)
AfterValidation_Untested(need) == "createIP"

AfterValidation(need) == IF need THEN "createIP" ELSE "createServer"

CheckBootscript ==
    /\ pc = "bootscript"
    /\ LET goOn == /\ pc' = AfterValidation(needIPCreation)
                   /\ UNCHANGED result
       IN  IF args.BootscriptID # ""
           THEN IF ~IsUUID(args.BootscriptID)
                THEN /\ ReturnError(Err("Bootscript ID is not a valid UUID", ""))
                     /\ UNCHANGED <<serverReq, calls>>
                ELSE \E ok \in BOOLEAN :
                       /\ calls' = Append(calls,
                            Call("GetBootscript", <<args.BootscriptID>>, ok, << >>))
                       /\ IF ~ok
                          THEN /\ ReturnError(Err("Bootscript ID does not exists", ""))
                               /\ UNCHANGED serverReq
                          ELSE /\ serverReq' = [serverReq EXCEPT
                                    !.Bootscript = Some(args.BootscriptID)]
                               /\ goOn
           ELSE /\ goOn
                /\ UNCHANGED <<serverReq, calls>>
    /\ UNCHANGED <<args, needIPCreation, volumes, idx, sentReq, warnings, err>>

-----------------------------------------------------------------------------
(* The run: STEP 2, resource creations and modifications.                  *)

(* Lines 274-285. *)
CreateIP ==
    /\ pc = "createIP"
    /\ \E e \in RemoteErrors \cup {""} :
       LET ok == e = "" IN
         /\ calls' = Append(calls,
              Call("CreateIP", << >>, ok, IF ok THEN <<CreatedIPID>> ELSE <<e>>))
         /\ IF ~ok
            THEN /\ ReturnError(Err("Error while creating your public IP", e))
                 /\ UNCHANGED serverReq
            ELSE /\ serverReq' = [serverReq EXCEPT !.PublicIP = Some(CreatedIPID)]
                 /\ pc' = "createServer"
                 /\ UNCHANGED result
    /\ UNCHANGED <<args, needIPCreation, volumes, idx, sentReq, warnings, err>>

(* Mutant: the nil test of line 293 inverted. *)
NeedsCompensation_NilTestInverted(need, publicIP) == need /\ IsNil(publicIP)

(* Mutant: line 293 does not test needIPCreation. *)
NeedsCompensation_AnyPublicIP(need, publicIP) == ~IsNil(publicIP)

(* Line 293: is the IP to be deleted after CreateServer failed? *)
NeedsCompensation(need, publicIP) == need /\ ~IsNil(publicIP)

(* return server, nil *)
ReturnServer ==
    /\ pc' = "done"
    /\ result' = [kind |-> "ok", err |-> NoError, server |-> ServerID]

(* Lines 290-313: the CreateServer call and what follows it immediately. *)
CreateServer ==
    /\ pc = "createServer"
    /\ sentReq' = Some(serverReq)
    /\ \E e \in RemoteErrors \cup {""} :
       LET ok == e = "" IN
         /\ calls' = Append(calls,
              Call("CreateServer", << >>, ok, IF ok THEN <<ServerID>> ELSE <<e>>))
         /\ IF ~ok
            THEN /\ err' = e
                 /\ IF NeedsCompensation(needIPCreation, serverReq.PublicIP)
                    THEN /\ pc' = "deleteIP"
                         /\ UNCHANGED result
                    ELSE ReturnError(Err("Cannot create the server", e))
            ELSE /\ UNCHANGED err
                 /\ IF args.Start
                    THEN /\ pc' = "start"
                         /\ UNCHANGED result
                    ELSE ReturnServer
    /\ UNCHANGED <<args, needIPCreation, serverReq, volumes, idx, warnings>>

(* Mutant: line 296 assigns the outer err instead of declaring a new one. *)
CreateServerFailure_Unshadowed(createErr, deleteErr) ==
    Err("Cannot create the server", deleteErr)

(* Line 305 as reached through lines 296-303: the error returned when
   CreateServer failed with createErr and DeleteIP ended with deleteErr
   ("" for nil).  The err of line 296 is a new variable of the inner block. *)
CreateServerFailure(createErr, deleteErr) ==
    Err("Cannot create the server", createErr)

(* Lines 294-305: the compensation. *)
DeleteIP ==
    /\ pc = "deleteIP"
    /\ \E deleteErr \in RemoteErrors \cup {""} :
         /\ calls' = Append(calls,
              Call("DeleteIP", <<Deref(serverReq.PublicIP)>>, deleteErr = "",
                   IF deleteErr = "" THEN << >> ELSE <<deleteErr>>))
         /\ warnings' = IF deleteErr # ""
                        THEN Append(warnings, "cannot delete the create IP")
                        ELSE warnings
         /\ ReturnError(CreateServerFailure(err, deleteErr))
    /\ UNCHANGED <<args, needIPCreation, serverReq, volumes, idx, sentReq, err>>

(* Mutant: a power-on failure is returned as an error. *)
StartServer_FailureFatal ==
    /\ pc = "start"
    /\ \E ok \in BOOLEAN :
         /\ calls' = Append(calls, Call("ServerAction poweron", <<ServerID>>, ok, << >>))
         /\ IF ok THEN ReturnServer
                  ELSE ReturnError(Err("Cannot start the server", ""))
    /\ UNCHANGED <<args, needIPCreation, serverReq, volumes, idx, sentReq,
                   warnings, err>>

(* Lines 313-328. *)
StartServer ==
    /\ pc = "start"
    /\ \E ok \in BOOLEAN :
         /\ calls' = Append(calls, Call("ServerAction poweron", <<ServerID>>, ok, << >>))
         /\ warnings' = IF ~ok
                        THEN Append(warnings, "Cannot start the server")
                        ELSE warnings
    /\ ReturnServer
    /\ UNCHANGED <<args, needIPCreation, serverReq, volumes, idx, sentReq, err>>

-----------------------------------------------------------------------------

Next ==
    \/ ResolveImage
    \/ ResolveIP
    \/ BuildRootVolume
    \/ BuildAdditionalVolume
    \/ ValidateRootVolume
    \/ ValidateLocalVolumeSizes
    \/ SanitizeVolumes
    \/ CheckBootscript
    \/ CreateIP
    \/ CreateServer
    \/ DeleteIP
    \/ StartServer

Spec == Init /\ [][Next]_vars

-----------------------------------------------------------------------------
(* The runs that differ only in their volume arguments: a UUID image, no
   public IP, no bootscript, no start, and up to MaxVolumes additional
   volumes.                                                                *)

VolumeRunArgs ==
    [ Image             : {ImageUUID},
      Type              : TypeArgs,
      Name              : {ServerName},
      OrganizationID    : {""},
      RootVolume        : RootVolumeArgs,
      AdditionalVolumes : SeqsUpTo(AdditionalVolumeArgs
                                     \cup { <<"local", ":", "20GB">> },
                                   MaxVolumes),
      IP                : {"none"},
      Start             : {FALSE},
      BootscriptID      : {""} ]

StartOf(a) ==
    /\ args = a
    /\ needIPCreation = FALSE
    /\ serverReq = InitialServerReq(a)
    /\ volumes = NoVolumes
    /\ idx = 0
    /\ calls = << >>
    /\ sentReq = None
    /\ warnings = << >>
    /\ err = ""
    /\ result = Running

VolumesInit == \E a \in VolumeRunArgs : StartOf(a) /\ pc = "image"

VolumesNext ==
    \/ ResolveImage
    \/ ResolveIP
    \/ BuildRootVolume
    \/ BuildAdditionalVolume
    \/ ValidateRootVolume
    \/ ValidateLocalVolumeSizes
    \/ SanitizeVolumes
    \/ CheckBootscript
    \/ CreateServer

SpecVolumes == VolumesInit /\ [][VolumesNext]_vars

-----------------------------------------------------------------------------
(* buildVolumeTemplate alone, on every descriptor of at most MaxDescLen
   tokens.                                                                 *)

DescTokens == {"l", "block", "x", ":", " ", "10GB", "junk", VolumeUUID}

Descriptors == SeqsUpTo(DescTokens, MaxDescLen)

ParseArgs ==
    [ Image             : {ImageUUID},
      Type              : {"DEV1-S"},
      Name              : {ServerName},
      OrganizationID    : {""},
      RootVolume        : Descriptors,
      AdditionalVolumes : { << >> },
      IP                : {"none"},
      Start             : {FALSE},
      BootscriptID      : {""} ]

ParseInit == \E a \in ParseArgs : StartOf(a) /\ pc = "parse"

(* One call of buildVolumeTemplate (lines 371-408) on args.RootVolume; the
   template it returns is kept at key "0". *)
ParseDescriptor ==
    /\ pc = "parse"
    /\ \E o \in BuildVolumeTemplate(OrganizationOf(args), args.RootVolume) :
         /\ calls' = calls \o o.made
         /\ IF ~o.out.ok
            THEN /\ ReturnError(o.out.err)
                 /\ UNCHANGED volumes
            ELSE /\ volumes' = ("0" :> o.out.vt)
                 /\ pc' = "done"
                 /\ result' = [kind |-> "ok", err |-> NoError, server |-> ""]
    /\ UNCHANGED <<args, needIPCreation, serverReq, idx, sentReq, warnings, err>>

ParseNext == ParseDescriptor

SpecParse == ParseInit /\ [][ParseNext]_vars

-----------------------------------------------------------------------------
(* Properties.                                                             *)

CallsOf(op) == { n \in DOMAIN calls : calls[n].op = op }
NumCalls(op) == Cardinality(CallsOf(op))
Succeeded(op) == \E n \in CallsOf(op) : calls[n].ok
FailedCall(op) == \E n \in CallsOf(op) : ~calls[n].ok

MutatingOps == {"CreateIP", "CreateServer", "DeleteIP", "ServerAction poweron"}
NumMutating == Cardinality({ n \in DOMAIN calls : calls[n].op \in MutatingOps })

Done == pc = "done"

(* C1: when the ip argument asks for a new IP, CreateIP succeeds and
   CreateServer then fails, DeleteIP has been called exactly once when the
   run ends; it is never called twice. *)
C1_CompensationExactlyOnce ==
    /\ NumCalls("DeleteIP") <= 1
    /\ (Done /\ args.IP \in {"", "new"}
             /\ Succeeded("CreateIP") /\ FailedCall("CreateServer"))
       => /\ NumCalls("DeleteIP") = 1
          /\ \E n \in CallsOf("DeleteIP"), m \in CallsOf("CreateServer") : m < n

C1_Witness ==
    /\ Done /\ args.IP = "new"
    /\ Succeeded("CreateIP") /\ FailedCall("CreateServer")
    /\ NumCalls("DeleteIP") = 1

(* C2: whenever CreateServer fails, the run returns the error CreateServer gave,
   whether DeleteIP then succeeds or fails; a DeleteIP failure only adds a
   warning. *)
C2_OriginalFailureWins ==
    (Done /\ FailedCall("CreateServer")) =>
        /\ result.kind = "error"
        /\ result.err.msg = "Cannot create the server"
        /\ \A m \in CallsOf("CreateServer") : result.err.cause = calls[m].ret[1]
        /\ FailedCall("DeleteIP") =>
             warnings[Len(warnings)] = "cannot delete the create IP"

C2_Witness ==
    /\ Done /\ FailedCall("CreateServer") /\ FailedCall("DeleteIP")
    /\ \E m \in CallsOf("CreateServer"), n \in CallsOf("DeleteIP") :
         /\ calls[m].ret[1] # calls[n].ret[1]
         /\ result.err.cause = calls[m].ret[1]


(* The errors of the steps that come before the creations. *)
ValidationFailures ==
    { "Bad image label", "does not belongs to you", "Invalid IP",
      "Invalid volume type", "Invalid size format", "invalid volume format",
      "Volume does not exist", "Volume is already attached",
      "First volume must be local",
      "You cannot use an existing volume as a root volume",
      "First volume size must be at least",
      "total local volume size must be equal to",
      "total local volume size must be between",
      "Bootscript ID is not a valid UUID", "Bootscript ID does not exists" }

VolumeArgsGiven == Len(args.AdditionalVolumes) > 0 \/ args.RootVolume # <<>>

ValidIPForm ==
    \/ args.IP \in {"", "new", "dynamic", "none"}
    \/ IsUUID(args.IP)
    \/ ParseIPOk(args.IP)

(* Every step of STEP 1 has succeeded on the run's inputs and lookups. *)
ValidationSucceeded ==
    /\ serverReq.Image # ""
    /\ ~FailedCall("GetLocalImageIDByLabel")
    /\ ValidIPForm /\ ~FailedCall("GetIP")
    /\ VolumeArgsGiven =>
         /\ ~IsNil(serverReq.Volumes)
         /\ DOMAIN Deref(serverReq.Volumes) =
              (IF args.RootVolume # <<>> THEN {"0"} ELSE {})
              \cup { ToString(n) : n \in 1..Len(args.AdditionalVolumes) }
         /\ ~FailedCall("GetVolume") /\ ~FailedCall("GetImage")
         /\ RootVolumePrecheck(Lookup(volumes, "0")) \in {"pass", "lookup"}
         /\ \A n \in CallsOf("GetImage") : volumes["0"].Size >= calls[n].ret[1]
         /\ \A n \in CallsOf("ListServersTypes") :
              calls[n].ok =>
                CheckLocalVolumeSizes(volumes, calls[n].ret[1], args.Type) = NoError
    /\ args.BootscriptID # "" =>
         /\ IsUUID(args.BootscriptID)
         /\ Succeeded("GetBootscript")
         /\ serverReq.Bootscript = Some(args.BootscriptID)

(* C3: a mutating remote call is made only after image resolution, IP
   resolution, volume building, root-volume validation, local-size validation
   and the bootscript check have all succeeded; a run that fails in one of
   them ends having made no mutating call. *)
C3_NoMutationBeforeValidation ==
    /\ NumMutating > 0 => ValidationSucceeded
    /\ (Done /\ (result.kind = "panic" \/ result.err.msg \in ValidationFailures))
       => NumMutating = 0
    /\ pc \in {"image", "ip", "root", "additional", "validateRoot",
               "validateLocal", "sanitize", "bootscript"} => NumMutating = 0

C3_Witness ==
    /\ NumMutating > 0
    /\ args.RootVolume # <<>> /\ Len(args.AdditionalVolumes) > 0
    /\ args.BootscriptID # ""
    /\ Succeeded("GetVolume") /\ Succeeded("GetImage")
    /\ Succeeded("ListServersTypes")

(* C4: CreateIP is called only when the ip argument is empty or "new"; when
   it fails the run ends with an error and calls neither CreateServer nor
   DeleteIP nor the power-on action. *)
C4_CreateIPOnlyForNew ==
    /\ NumCalls("CreateIP") > 0 => args.IP \in {"", "new"}
    /\ FailedCall("CreateIP") =>
         /\ Done /\ result.kind = "error"
         /\ result.err.msg = "Error while creating your public IP"
         /\ NumMutating = 1

C4_Witness == Done /\ FailedCall("CreateIP") /\ args.IP = ""

(* C5: once CreateServer has succeeded the run returns the created server,
   start flag or not, power-on failed or not; the power-on action is called at
   most once, only with the start flag, only after CreateServer succeeded, and
   its failure only adds a warning. *)
C5_ServerReturnedAfterCreation ==
    /\ NumCalls("ServerAction poweron") <= 1
    /\ \A n \in CallsOf("ServerAction poweron") :
         /\ args.Start
         /\ \E m \in CallsOf("CreateServer") : m < n /\ calls[m].ok
    /\ (Done /\ Succeeded("CreateServer")) =>
         /\ result.kind = "ok" /\ result.err = NoError
         /\ \A m \in CallsOf("CreateServer") : result.server = calls[m].ret[1]
         /\ args.Start => NumCalls("ServerAction poweron") = 1
         /\ FailedCall("ServerAction poweron") =>
              warnings[Len(warnings)] = "Cannot start the server"

C5_Witness ==
    /\ Done /\ Succeeded("CreateServer") /\ FailedCall("ServerAction poweron")
    /\ result.kind = "ok" /\ result.server = ServerID


(* IP resolution has run: the run is past lines 180-201, or stopped in them. *)
IPResolutionDone ==
    /\ pc \notin {"image", "ip"}
    /\ result.err.msg # "Bad image label"

IPResolutionFailed == result.err.msg \in {"does not belongs to you", "Invalid IP"}

(* The run is between IP resolution and the creations, where the request
   still holds what IP resolution put in it. *)
BeforeCreation ==
    pc \in {"root", "additional", "validateRoot", "validateLocal", "sanitize",
            "bootscript", "createIP"}

(* C6: IP resolution handles the five forms of the ip argument: "" and "new"
   ask for a new IP; a UUID is attached as it is; an address is attached under
   the id its lookup returns, or fails as not owned when the lookup fails;
   "dynamic" asks for a dynamic IP; "none" for no IP; every other string fails
   as an invalid IP. *)
C6_IPResolutionTotal ==
    IPResolutionDone =>
      /\ args.IP \in {"", "new"} =>
           /\ needIPCreation /\ ~IPResolutionFailed
           /\ BeforeCreation =>
                IsNil(serverReq.PublicIP) /\ IsNil(serverReq.DynamicIPRequired)
      /\ IsUUID(args.IP) =>
           /\ ~needIPCreation /\ ~IPResolutionFailed
           /\ serverReq.PublicIP = Some(args.IP)
           /\ IsNil(serverReq.DynamicIPRequired)
           /\ NumCalls("GetIP") = 0
      /\ ParseIPOk(args.IP) =>
           /\ ~needIPCreation /\ NumCalls("GetIP") = 1
           /\ IsNil(serverReq.DynamicIPRequired)
           /\ \A n \in CallsOf("GetIP") :
                /\ calls[n].arg = <<args.IP>>
                /\ calls[n].ok => /\ serverReq.PublicIP = Some(calls[n].ret[1])
                                  /\ ~IPResolutionFailed
                /\ ~calls[n].ok => /\ Done /\ result.kind = "error"
                                   /\ result.err.msg = "does not belongs to you"
                                   /\ IsNil(serverReq.PublicIP)
      /\ args.IP = "dynamic" =>
           /\ ~needIPCreation /\ ~IPResolutionFailed
           /\ IsNil(serverReq.PublicIP)
           /\ serverReq.DynamicIPRequired = Some(TRUE)
      /\ args.IP = "none" =>
           /\ ~needIPCreation /\ ~IPResolutionFailed
           /\ IsNil(serverReq.PublicIP) /\ IsNil(serverReq.DynamicIPRequired)
      /\ ~ValidIPForm =>
           /\ Done /\ result.kind = "error" /\ result.err.msg = "Invalid IP"
           /\ ~needIPCreation
           /\ IsNil(serverReq.PublicIP) /\ IsNil(serverReq.DynamicIPRequired)
           /\ NumCalls("GetIP") = 0

C6_Witness ==
    /\ IPResolutionDone /\ args.IP = "none" /\ pc = "bootscript"
    /\ ~needIPCreation /\ IsNil(serverReq.PublicIP)

(* C7: the request given to CreateServer reflects exactly one IP directive:
   PublicIP is set exactly for "new" (the id CreateIP returned) and for an
   existing IP (the resolved id), DynamicIPRequired exactly for "dynamic",
   never both; with "none" no CreateIP call is made and both are unset. *)
C7_RequestReflectsDirective ==
    ~IsNil(sentReq) =>
      LET r == Deref(sentReq) IN
        /\ ~IsNil(r.PublicIP) <=>
             (args.IP \in {"", "new"} \/ IsUUID(args.IP) \/ ParseIPOk(args.IP))
        /\ args.IP \in {"", "new"} =>
             \E n \in CallsOf("CreateIP") :
               calls[n].ok /\ r.PublicIP = Some(calls[n].ret[1])
        /\ IsUUID(args.IP) => r.PublicIP = Some(args.IP)
        /\ ParseIPOk(args.IP) =>
             \E n \in CallsOf("GetIP") :
               calls[n].ok /\ r.PublicIP = Some(calls[n].ret[1])
        /\ ~IsNil(r.DynamicIPRequired) <=> args.IP = "dynamic"
        /\ args.IP = "dynamic" => r.DynamicIPRequired = Some(TRUE)
        /\ IsNil(r.PublicIP) \/ IsNil(r.DynamicIPRequired)
        /\ args.IP \notin {"", "new"} => NumCalls("CreateIP") = 0
        /\ args.IP = "none" =>
             /\ NumCalls("CreateIP") = 0
             /\ IsNil(r.PublicIP) /\ IsNil(r.DynamicIPRequired)

C7_Witness ==
    /\ ~IsNil(sentReq) /\ args.IP = "none" /\ Succeeded("CreateServer")
    /\ IsNil(Deref(sentReq).PublicIP) /\ IsNil(Deref(sentReq).DynamicIPRequired)


BuildFailures ==
    { "Invalid volume type", "Invalid size format", "invalid volume format",
      "Volume does not exist", "Volume is already attached" }

RootFailures ==
    { "First volume must be local",
      "You cannot use an existing volume as a root volume",
      "First volume size must be at least" }

(* validateRootVolume has run: the run is past line 222, or stopped in it. *)
RootValidationDone ==
    /\ pc \notin {"image", "ip", "root", "additional", "validateRoot"}
    /\ VolumeArgsGiven
    /\ result.err.msg \notin
         {"Bad image label", "does not belongs to you", "Invalid IP"}
         \cup BuildFailures

RootPassed == result.kind # "panic" /\ result.err.msg \notin RootFailures

(* C8: for a newly created root volume, a block volume fails as "must be
   local"; a local volume smaller than the image's root volume fails as too
   small; a local volume at least as large passes; without a root template
   the check passes and makes no remote call. *)
C8_RootVolumeValidation ==
    RootValidationDone =>
      LET root == Lookup(volumes, "0") IN
        /\ IsNil(root) => RootPassed /\ NumCalls("GetImage") = 0
        /\ (~IsNil(root) /\ Deref(root).ID = "") =>
             /\ Deref(root).VolumeType = VolumeTypeBSSD =>
                  /\ Done /\ result.kind = "error"
                  /\ result.err.msg = "First volume must be local"
                  /\ NumCalls("GetImage") = 0
             /\ Deref(root).VolumeType = VolumeTypeLSSD =>
                  /\ NumCalls("GetImage") = 1
                  /\ \A n \in CallsOf("GetImage") :
                       calls[n].ok =>
                         IF Deref(root).Size < calls[n].ret[1]
                         THEN /\ Done /\ result.kind = "error"
                              /\ result.err.msg = "First volume size must be at least"
                         ELSE RootPassed

C8_Witness ==
    /\ pc = "validateLocal" /\ "0" \in DOMAIN volumes
    /\ volumes["0"].ID = "" /\ volumes["0"].VolumeType = VolumeTypeLSSD
    /\ \E n \in CallsOf("GetImage") :
         calls[n].ok /\ calls[n].ret[1] = volumes["0"].Size /\ calls[n].ret[1] > 0

(* C9, as claimed: a root volume given as the UUID of an existing unattached
   volume fails as "cannot use an existing volume", whatever its class. *)
C9_ExistingRootRejectedAsExisting ==
    (RootValidationDone /\ "0" \in DOMAIN volumes /\ volumes["0"].ID # "") =>
        /\ Done /\ result.kind = "error"
        /\ result.err.msg = "You cannot use an existing volume as a root volume"

(* C9, amended: a root volume given as the UUID of an existing unattached
   volume always fails, before any image lookup or mutating call: as "cannot
   use an existing volume" when the volume is local, as "must be local" when
   it is a block volume. *)
C9_ExistingRootRejected ==
    (RootValidationDone /\ "0" \in DOMAIN volumes /\ volumes["0"].ID # "") =>
        /\ Done /\ result.kind = "error"
        /\ NumCalls("GetImage") = 0 /\ NumMutating = 0
        /\ volumes["0"].VolumeType = VolumeTypeLSSD =>
             result.err.msg = "You cannot use an existing volume as a root volume"
        /\ volumes["0"].VolumeType = VolumeTypeBSSD =>
             result.err.msg = "First volume must be local"

C9_Witness ==
    /\ Done /\ args.RootVolume = <<VolumeUUID>>
    /\ "0" \in DOMAIN volumes /\ volumes["0"].ID = VolumeUUID
    /\ volumes["0"].VolumeType = VolumeTypeLSSD
    /\ result.err.msg = "You cannot use an existing volume as a root volume"

(* C10: when the GetImage lookup of the root-volume size check fails, the
   check is skipped with a warning and the run goes on to the local-size check
   and the creations; the failed lookup neither fails nor aborts the run. *)
C10_ImageLookupFailureSkipsCheck ==
    FailedCall("GetImage") =>
        /\ \E n \in DOMAIN warnings :
             warnings[n] = "skip root volume size validation"
        /\ result.kind # "panic"
        /\ result.err.msg \notin RootFailures
        /\ pc \notin {"validateRoot"}
        /\ Done => NumCalls("ListServersTypes") = 1


LocalFailures ==
    { "total local volume size must be equal to",
      "total local volume size must be between" }

RECURSIVE SumOver(_, _)
SumOver(f, S) ==
    IF S = {} THEN 0
    ELSE LET k == CHOOSE x \in S : TRUE IN f[k] + SumOver(f, S \ {k})

(* The sizes of the local-class templates of the volume map, added up. *)
TemplateLocalTotal ==
    SumOver([k \in DOMAIN volumes |->
               IF volumes[k].VolumeType = "l_ssd" THEN volumes[k].Size ELSE 0],
            DOMAIN volumes)

SkipLogged ==
    \E n \in DOMAIN warnings : warnings[n] = "skip local volume size validation"

(* C11: the local-size check never fails the run when its constraint data is
   missing: when ListServersTypes fails, or answers without the selected
   commercial type, validateLocalVolumeSizes returns nil whatever the volume
   set, and the skip is logged. *)
C11_LocalCheckSkippedWithoutData ==
    \A n \in CallsOf("ListServersTypes") :
      (~calls[n].ok \/ args.Type \notin DOMAIN calls[n].ret[1]) =>
        /\ pc \in {"sanitize", "bootscript", "createIP", "createServer",
                   "deleteIP", "start", "done"}
        /\ result.err.msg \notin LocalFailures
        /\ Done => ~IsNil(serverReq.Volumes)
        /\ SkipLogged

C11_Witness ==
    /\ pc = "sanitize" /\ args.Type = "X1-UNKNOWN"
    /\ Succeeded("ListServersTypes")
    /\ TemplateLocalTotal > 20


(* C12: with total the sizes of the local-class templates added up, plus the
   type's minimum when the map has no root template, the local-size check
   passes exactly when min <= total <= max; it fails with the "must be equal"
   message when min = max and with the "must be between" message otherwise.
   Block volumes add nothing to the total. *)
C12_LocalSizeCheck ==
    \A n \in CallsOf("ListServersTypes") :
      (calls[n].ok /\ args.Type \in DOMAIN calls[n].ret[1]) =>
        LET c     == calls[n].ret[1][args.Type]
            total == TemplateLocalTotal
                     + (IF "0" \in DOMAIN volumes THEN 0 ELSE c.MinSize)
        IN  IF c.MinSize <= total /\ total <= c.MaxSize
            THEN /\ result.err.msg \notin LocalFailures
                 /\ pc # "validateLocal"
            ELSE /\ Done /\ result.kind = "error"
                 /\ result.err.msg =
                      IF c.MinSize = c.MaxSize
                      THEN "total local volume size must be equal to"
                      ELSE "total local volume size must be between"

C12_Witness ==
    /\ Done /\ result.err.msg = "total local volume size must be between"
    /\ "0" \notin DOMAIN volumes
    /\ \E k \in DOMAIN volumes : volumes[k].VolumeType = "b_ssd"
    /\ \E n \in CallsOf("ListServersTypes") :
         TemplateLocalTotal + calls[n].ret[1][args.Type].MinSize
           > calls[n].ret[1][args.Type].MaxSize


(* The descriptor given to buildVolumeTemplate in SpecParse, without the
   spaces around it, and what it is made of. *)
Descriptor == args.RootVolume

RECURSIVE Stripped(_)
Stripped(d) ==
    IF d = <<>> THEN d
    ELSE IF d[1] = " " THEN Stripped(SubSeq(d, 2, Len(d)))
    ELSE IF d[Len(d)] = " " THEN Stripped(SubSeq(d, 1, Len(d) - 1))
    ELSE d

Colons(t) == { n \in DOMAIN t : t[n] = ":" }

ClassTokens == {"l", "local", "b", "block"}

(* <class>:<size> with a known class and a size that parses. *)
NewVolumeForm(t) ==
    Len(t) = 3 /\ t[2] = ":" /\ t[1] \in ClassTokens /\ t[3] = "10GB"

UUIDForm(t) == Len(t) = 1 /\ t[1] = VolumeUUID

(* Exactly one ':' and a known class before it. *)
KnownClassForm(t) ==
    /\ Cardinality(Colons(t)) = 1
    /\ Len(t) >= 2 /\ t[2] = ":" /\ t[1] \in ClassTokens

ParsedAsNew(t) ==
    /\ result.kind = "ok" /\ calls = << >>
    /\ volumes["0"] =
         [ID |-> "", Name |-> "", Size |-> 10,
          VolumeType |-> IF t[1] \in {"l", "local"} THEN "l_ssd" ELSE "b_ssd",
          Organization |-> "org-default"]

(* C13, as claimed: <class>:<size> yields a new volume of that class and
   size; every other descriptor that is not a UUID fails as an invalid volume
   format. *)
C13_OthersFailAsInvalidFormat ==
    Done =>
      LET t == Stripped(Descriptor) IN
        /\ NewVolumeForm(t) => ParsedAsNew(t)
        /\ (~NewVolumeForm(t) /\ ~UUIDForm(t)) =>
             /\ result.kind = "error"
             /\ result.err.msg = "invalid volume format"

(* C13, amended: <class>:<size> yields a new volume of that class and size; a
   UUID is looked up; of the other descriptors, those with exactly one ':'
   fail as an invalid volume type when the class is not known and as an
   invalid size format when the size does not parse, and all the rest fail as
   an invalid volume format; none of them makes a remote call. *)
C13_DescriptorParsing ==
    Done =>
      LET t == Stripped(Descriptor) IN
        /\ NewVolumeForm(t) => ParsedAsNew(t)
        /\ UUIDForm(t) =>
             /\ Len(calls) = 1
             /\ calls[1].op = "GetVolume" /\ calls[1].arg = <<VolumeUUID>>
        /\ (~NewVolumeForm(t) /\ ~UUIDForm(t)) =>
             /\ result.kind = "error" /\ calls = << >>
             /\ volumes = NoVolumes
             /\ result.err.msg =
                  IF Cardinality(Colons(t)) # 1 THEN "invalid volume format"
                  ELSE IF KnownClassForm(t) THEN "Invalid size format"
                  ELSE "Invalid volume type"

C13_Witness ==
    /\ Done /\ Descriptor = <<"x", ":", "10GB">>
    /\ result.err.msg = "Invalid volume type"


(* The keys of the volume arguments that are UUIDs, in the order buildVolumes
   reads them: "0" for the root volume, then "1", "2", ... *)
RECURSIVE UUIDKeysFrom(_)
UUIDKeysFrom(n) ==
    IF n > Len(args.AdditionalVolumes) THEN << >>
    ELSE (IF UUIDForm(Stripped(args.AdditionalVolumes[n]))
          THEN <<ToString(n)>> ELSE << >>) \o UUIDKeysFrom(n + 1)

UUIDKeys ==
    (IF UUIDForm(Stripped(args.RootVolume)) THEN <<"0">> ELSE << >>)
    \o UUIDKeysFrom(1)

(* The key of the descriptor the n-th remote call (a GetVolume) looked up. *)
KeyOfLookup(n) ==
    UUIDKeys[Cardinality({ m \in CallsOf("GetVolume") : m <= n })]

(* C14: for a UUID volume descriptor, root or additional: when GetVolume
   reports the volume attached to a server the run fails as "already
   attached", stores no template for that descriptor and calls neither
   CreateIP nor CreateServer (nor anything else) afterwards; when GetVolume
   fails the run fails as "does not exist". *)
C14_AttachedOrMissingVolumeRejected ==
    /\ NumCalls("GetVolume") <= Len(UUIDKeys)
    /\ \A n \in CallsOf("GetVolume") :
         /\ calls[n].arg = <<VolumeUUID>>
         /\ ~calls[n].ok =>
              /\ Done /\ result.kind = "error"
              /\ result.err.msg = "Volume does not exist"
              /\ n = Len(calls) /\ NumMutating = 0
              /\ KeyOfLookup(n) \notin DOMAIN volumes
         /\ (calls[n].ok /\ ~IsNil(calls[n].ret[3])) =>
              /\ Done /\ result.kind = "error"
              /\ result.err.msg = "Volume is already attached"
              /\ n = Len(calls) /\ NumMutating = 0
              /\ KeyOfLookup(n) \notin DOMAIN volumes
              /\ IsNil(serverReq.Volumes) /\ IsNil(sentReq)

C14_Witness ==
    /\ Done /\ result.err.msg = "Volume is already attached"
    /\ Len(args.AdditionalVolumes) > 0
    /\ UUIDForm(Stripped(args.AdditionalVolumes[1]))
    /\ "0" \in DOMAIN volumes /\ "1" \notin DOMAIN volumes


(* An id and a name, every other field of the template empty. *)
IDAndNameOnly(id, name) ==
    [ID |-> id, Name |-> name, Size |-> 0, VolumeType |-> "",
     Organization |-> ""]

(* The 1-based positions of the additional volumes given by UUID. *)
UUIDAdditionals ==
    { i \in 1..Len(args.AdditionalVolumes) :
        UUIDForm(Stripped(args.AdditionalVolumes[i])) }

(* C15: an additional volume given as the UUID of an existing unattached
   volume has, at its key, a template holding only the id and the name: in
   the map buildVolumes returns, in the map sanitizeVolumeMap returns and in
   the request CreateServer receives. *)
C15_ExistingAdditionalHasIDAndName ==
    \A i \in UUIDAdditionals :
      LET k == ToString(i)
          expected == IDAndNameOnly(VolumeUUID, args.Name \o "-" \o k)
      IN  /\ k \in DOMAIN volumes => volumes[k] = expected
          /\ ~IsNil(serverReq.Volumes) =>
               /\ k \in DOMAIN Deref(serverReq.Volumes)
               /\ Deref(serverReq.Volumes)[k] = expected
          /\ ~IsNil(sentReq) =>
               /\ ~IsNil(Deref(sentReq).Volumes)
               /\ k \in DOMAIN Deref(Deref(sentReq).Volumes)
               /\ Deref(Deref(sentReq).Volumes)[k] = expected

C15_Witness ==
    /\ ~IsNil(sentReq)
    /\ 1 \in UUIDAdditionals
    /\ \E n \in CallsOf("GetVolume") :
         /\ calls[n].ok
         /\ calls[n].ret = <<VolumeTypeBSSD, 20, None>>
    /\ Deref(Deref(sentReq).Volumes)["1"].ID = VolumeUUID


LabelLookups == CallsOf("GetLocalImageIDByLabel")

(* C16: an image argument that is a UUID goes into the request unchanged
   and no label is looked up; any other image argument is looked up exactly
   once, as the first remote call, with the commercial type, and the id the
   lookup returns becomes the image of the request; when the lookup fails
   the run fails with "Bad image label" and makes no other remote call. *)
C16_ImageResolution ==
    /\ pc = "image" => calls = << >>
    /\ pc # "image" =>
         IF args.Image \in UUIDStrings
         THEN /\ LabelLookups = {}
              /\ serverReq.Image = args.Image
         ELSE /\ LabelLookups = {1}
              /\ calls[1].arg = <<args.Image, args.Type>>
              /\ calls[1].ok => /\ calls[1].ret # << >>
                                /\ serverReq.Image = calls[1].ret[1]
              /\ ~calls[1].ok =>
                   /\ Done /\ result.kind = "error"
                   /\ result.err.msg = "Bad image label"
                   /\ Len(calls) = 1
                   /\ IsNil(sentReq)
    /\ ~IsNil(sentReq) =>
         Deref(sentReq).Image = (IF args.Image \in UUIDStrings
                                 THEN args.Image ELSE calls[1].ret[1])

C16_Witness ==
    /\ ~IsNil(sentReq)
    /\ args.Image = "ubuntu_bionic"
    /\ calls[1].op = "GetLocalImageIDByLabel"
    /\ Deref(sentReq).Image = LabelImageID


(* The step of the run each remote call belongs to, in the order of the
   claim: 1 image, 2 IP, 3 volume building, 4 root volume, 5 local sizes,
   6 bootscript, 7 CreateIP, 8 CreateServer (its compensation included),
   9 power on. *)
StepOfCall(op) ==
    CASE op = "GetLocalImageIDByLabel" -> 1
      [] op = "GetIP"                  -> 2
      [] op = "GetVolume"              -> 3
      [] op = "GetImage"               -> 4
      [] op = "ListServersTypes"       -> 5
      [] op = "GetBootscript"          -> 6
      [] op = "CreateIP"               -> 7
      [] op = "CreateServer"           -> 8
      [] op = "DeleteIP"               -> 8
      [] op = "ServerAction poweron"   -> 9

(* The step each error message comes from. *)
StepOfError(msg) ==
    CASE msg = "Bad image label"                         -> 1
      [] msg \in {"does not belongs to you", "Invalid IP"} -> 2
      [] msg \in BuildFailures                            -> 3
      [] msg \in RootFailures                             -> 4
      [] msg \in LocalFailures                            -> 5
      [] msg \in {"Bootscript ID is not a valid UUID",
                  "Bootscript ID does not exists"}        -> 6
      [] msg = "Error while creating your public IP"      -> 7
      [] msg = "Cannot create the server"                 -> 8

(* The remote calls whose failure is fatal. *)
FatalOps ==
    {"GetLocalImageIDByLabel", "GetIP", "GetVolume", "GetBootscript",
     "CreateIP", "CreateServer"}

(* C17: the remote calls of a run are made in the order of the steps (image,
   IP, volume building, root volume, local sizes, bootscript, CreateIP,
   CreateServer, power on), each step but volume building calling at most
   once; a fatal failure ends the run with the error of its own step, and
   no call of a later step is ever made: the error returned is that of the
   earliest failing step. *)
C17_StepsInOrderFirstErrorWins ==
    /\ \A m, n \in DOMAIN calls :
         m < n =>
           \/ StepOfCall(calls[m].op) < StepOfCall(calls[n].op)
           \/ calls[m].op = "GetVolume" /\ calls[n].op = "GetVolume"
           \/ calls[m].op = "CreateServer" /\ calls[n].op = "DeleteIP"
                /\ n = m + 1
    /\ \A n \in DOMAIN calls :
         (calls[n].op \in FatalOps /\ ~calls[n].ok) =>
           /\ \/ Done /\ result.kind = "error"
                   /\ StepOfError(result.err.msg) = StepOfCall(calls[n].op)
              \/ pc = "deleteIP" /\ calls[n].op = "CreateServer"
           /\ \A m \in DOMAIN calls :
                m > n => calls[m].op = "DeleteIP"
    /\ result.kind = "error" =>
         /\ Done
         /\ \A n \in DOMAIN calls :
              /\ StepOfCall(calls[n].op) <= StepOfError(result.err.msg)
              /\ (calls[n].op \in FatalOps /\ ~calls[n].ok) =>
                   StepOfCall(calls[n].op) = StepOfError(result.err.msg)
    /\ Done => \A n \in DOMAIN calls :
                 n < Len(calls) /\ calls[n].op \in FatalOps /\ ~calls[n].ok
                   => calls[n].op = "CreateServer"
    /\ (Done /\ ~ValidIPForm /\ ~FailedCall("GetLocalImageIDByLabel")) =>
         /\ result.kind = "error" /\ result.err.msg = "Invalid IP"
         /\ \A n \in DOMAIN calls : StepOfCall(calls[n].op) = 1
    /\ (result.kind = "error" /\ StepOfError(result.err.msg) >= 6) =>
         /\ ValidIPForm
         /\ VolumeArgsGiven => ~IsNil(serverReq.Volumes)
    /\ (result.kind = "error" /\ StepOfError(result.err.msg) >= 7) =>
         args.BootscriptID \in {"", BootscriptUUID}

C17_Witness ==
    /\ Done /\ result.kind = "error"
    /\ result.err.msg = "Bad image label"
    /\ args.IP = "NEW"
    /\ args.BootscriptID = "my-bootscript"
    /\ Len(calls) = 1 /\ ~calls[1].ok


(* C18: DeleteIP is only ever called for the IP this run created: the ip
   argument asked for a new IP, CreateIP succeeded before and returned the
   id DeleteIP is given, and CreateServer has failed; an IP the user
   supplied, by id or by address, is never deleted. *)
C18_OnlyOwnIPDeleted ==
    \A n \in CallsOf("DeleteIP") :
      /\ args.IP \in {"", "new"}
      /\ \E m \in CallsOf("CreateIP") :
           /\ m < n /\ calls[m].ok
           /\ calls[n].arg = <<calls[m].ret[1]>>
      /\ calls[n].arg \notin {<<IPUUID>>, <<LookedUpIPID>>}
      /\ n > 1 /\ calls[n - 1].op = "CreateServer" /\ ~calls[n - 1].ok
      /\ ~Succeeded("CreateServer")
      /\ result.kind # "ok"

C18_Witness ==
    /\ Done
    /\ \E n \in CallsOf("DeleteIP") : calls[n].arg = <<CreatedIPID>>
    /\ args.IP = ""
    /\ result.err.msg = "Cannot create the server"


(* The keys the volume arguments call for. *)
ExpectedKeys ==
    (IF args.RootVolume # << >> THEN {"0"} ELSE {})
    \cup { ToString(i) : i \in 1..Len(args.AdditionalVolumes) }

(* Template v is the one descriptor d gives: the existing volume d names, or
   a new volume of d's class and size. *)
DerivedFrom(d, v) ==
    LET t == Stripped(d) IN
      IF UUIDForm(t) THEN v.ID = VolumeUUID
      ELSE /\ Len(t) = 3
           /\ v.ID = ""
           /\ v.VolumeType = (IF t[1] \in {"l", "local"} THEN "l_ssd"
                              ELSE "b_ssd")
           /\ v.Size = ParseBytes(t[3])

(* A volume map with the key layout of the claim. *)
LaidOut(m) ==
    /\ DOMAIN m = ExpectedKeys
    /\ \A i \in 1..Len(args.AdditionalVolumes) :
         /\ m[ToString(i)].Name = args.Name \o "-" \o ToString(i)
         /\ DerivedFrom(args.AdditionalVolumes[i], m[ToString(i)])

(* buildVolumes has returned a map: the run is past line 216. *)
VolumesBuilt ==
    /\ VolumeArgsGiven
    /\ pc \notin {"image", "ip", "root", "additional"}
    /\ result.err.msg \notin
         {"Bad image label", "does not belongs to you", "Invalid IP"}
         \cup BuildFailures

(* C19: when every volume descriptor resolves, the map buildVolumes returns
   and the map CreateServer is sent have the keys "0" (if a root volume is
   given) and "1".."n" exactly, and the template at key i >= 1 is the one of
   the additional descriptor at position i-1, named "<serverName>-<i>". *)
C19_VolumeKeyLayout ==
    /\ VolumesBuilt => LaidOut(volumes)
    /\ ~IsNil(serverReq.Volumes) => LaidOut(Deref(serverReq.Volumes))
    /\ (~IsNil(sentReq) /\ VolumeArgsGiven) =>
         /\ ~IsNil(Deref(sentReq).Volumes)
         /\ LaidOut(Deref(Deref(sentReq).Volumes))
    /\ (~IsNil(sentReq) /\ ~VolumeArgsGiven) => IsNil(Deref(sentReq).Volumes)

C19_Witness ==
    /\ ~IsNil(sentReq)
    /\ args.RootVolume # << >>
    /\ Len(args.AdditionalVolumes) = 2
    /\ args.AdditionalVolumes[1] = <<VolumeUUID>>
    /\ args.AdditionalVolumes[2] = <<" ", "block", ":", "20GB">>
    /\ DOMAIN Deref(Deref(sentReq).Volumes) = {"0", "1", "2"}
    /\ Deref(Deref(sentReq).Volumes)["2"].VolumeType = "b_ssd"


(* The sizes GetVolume reported for the existing local volumes of the run,
   added up. *)
ExistingLocalTotal ==
    SumOver([n \in CallsOf("GetVolume") |->
               IF calls[n].ok /\ calls[n].ret[1] = "l_ssd"
               THEN calls[n].ret[2] ELSE 0],
            CallsOf("GetVolume"))

(* C20, as claimed: the total compared with the type's minimum and maximum
   counts the existing local volumes given by UUID as additional volumes:
   the check passes exactly when that total is within the range. *)
C20_ExistingLocalVolumesCounted ==
    \A n \in CallsOf("ListServersTypes") :
      (calls[n].ok /\ args.Type \in DOMAIN calls[n].ret[1]) =>
        LET c     == calls[n].ret[1][args.Type]
            total == TemplateLocalTotal + ExistingLocalTotal
                     + (IF "0" \in DOMAIN volumes THEN 0 ELSE c.MinSize)
        IN  IF c.MinSize <= total /\ total <= c.MaxSize
            THEN result.err.msg \notin LocalFailures
            ELSE pc # "validateLocal" =>
                   /\ Done /\ result.kind = "error"
                   /\ result.err.msg \in LocalFailures


(* A size, every other field of the template empty. *)
SizeOnly(size) ==
    [ID |-> "", Name |-> "", Size |-> size, VolumeType |-> "",
     Organization |-> ""]

(* CreateServer has been sent a request for a run with a root volume. *)
SentWithRoot == ~IsNil(sentReq) /\ args.RootVolume # << >>

SentRoot == Deref(Deref(sentReq).Volumes)["0"]

(* The size the root descriptor asks for. *)
RootSizeAsked == ParseBytes(Stripped(args.RootVolume)[3])

(* C21, as claimed: the root template CreateServer receives holds the size
   alone, whatever the size, zero included. *)
C21_RootTemplateSizeOnlyAnySize ==
    SentWithRoot =>
      /\ ~IsNil(Deref(sentReq).Volumes)
      /\ "0" \in DOMAIN Deref(Deref(sentReq).Volumes)
      /\ SentRoot = SizeOnly(RootSizeAsked)

(* C21, amended: the root template CreateServer receives holds the size
   alone when the size is not zero; a root volume of size zero keeps its
   storage class and carries the name "<serverName>-0", its id and
   organization being empty. *)
C21_RootTemplateSizeOnly ==
    SentWithRoot =>
      /\ ~IsNil(Deref(sentReq).Volumes)
      /\ "0" \in DOMAIN Deref(Deref(sentReq).Volumes)
      /\ Len(Stripped(args.RootVolume)) = 3
      /\ IF RootSizeAsked # 0
         THEN SentRoot = SizeOnly(RootSizeAsked)
         ELSE SentRoot = [ID |-> "", Name |-> args.Name \o "-0", Size |-> 0,
                          VolumeType |-> "l_ssd", Organization |-> ""]

C21_Witness ==
    /\ SentWithRoot
    /\ args.RootVolume = <<"local", ":", "20GB">>
    /\ SentRoot.Size = 20
    /\ \E n \in CallsOf("GetImage") : calls[n].ok /\ calls[n].ret = <<20>>

====
